---- MODULE Spec2Model ----
(***************************************************************************)
(* The message and response shapes of the infinity-swap pool contract      *)
(* (ts/src/InfinityPool.types.ts) and of the swap router (the second       *)
(* generated file), as TypeScript type expressions, together with the      *)
(* relation "JSON value v is a value of type T" that TypeScript's          *)
(* structural typing gives those expressions.                              *)
(*                                                                         *)
(* A client builds a JSON value for a shape, possibly edits it, encodes    *)
(* it, has it validated against the shape and, when accepted, decoded.     *)
(***************************************************************************)
EXTENDS Integers, Sequences, FiniteSets, TLC

(***************************************************************************)
(* Bounds of the model.                                                    *)
(***************************************************************************)
\* number of edits a client applies to a sample value before sending it
MaxEdits == 1

(***************************************************************************)
(* JSON values.  Every kind of value is a record with its own field set,   *)
(* so that values of different kinds are unequal, never incomparable.      *)
(***************************************************************************)
JNull == [t |-> "null"]
JBool(b) == [t |-> "bool", b |-> b]
JNum(n) == [t |-> "num", n |-> n]
JStr(s) == [t |-> "str", s |-> s]
JArr(a) == [t |-> "arr", a |-> a]
JObj(o) == [t |-> "obj", o |-> o]

EmptyMap == [k \in {} |-> JNull]

\* the object v without key k
Without(v, k) == JObj([x \in (DOMAIN v.o) \ {k} |-> v.o[x]])

\* the object v with key k set to w
With(v, k, w) == JObj([x \in (DOMAIN v.o) \cup {k} |-> IF x = k THEN w ELSE v.o[x]])

HasKey(v, k) == v.t = "obj" /\ k \in DOMAIN v.o

(***************************************************************************)
(* TypeScript type expressions, as the two files use them.                 *)
(***************************************************************************)
StringT == [k |-> "string"]
NumberT == [k |-> "number"]
BooleanT == [k |-> "boolean"]
NullT == [k |-> "null"]
\* a string literal type:  "linear"
Lit(s) == [k |-> "lit", s |-> s]
\* A | B | ...
Union(ts) == [k |-> "union", of |-> ts]
\* T[]
ArrayOf(T) == [k |-> "array", of |-> T]
\* [A, B]
TupleOf(ts) == [k |-> "tuple", of |-> ts]
\* name: T;
Req(n, T) == [name |-> n, opt |-> FALSE, type |-> T]
\* name?: T;
Opt(n, T) == [name |-> n, opt |-> TRUE, type |-> T]
\* interface X { ... }  and the anonymous  { ... }
Interface(fs) == [k |-> "object", fields |-> fs]
\* T | null
Nullable(T) == Union(<<T, NullT>>)

(***************************************************************************)
(* ts/src/InfinityPool.types.ts                                            *)
(***************************************************************************)
Addr == StringT
\* Uint128 emitted as a native number
Uint128AsNumber == NumberT
Uint128 == StringT
Decimal == StringT
Uint64 == StringT
Timestamp == Uint64

Config ==
    Interface(<< Req("denom", StringT),
                 Opt("developer", Nullable(Addr)),
                 Req("marketplace_addr", Addr) >>)

ConfigResponse == Interface(<< Req("config", Config) >>)

InstantiateMsg ==
    Interface(<< Req("denom", StringT),
                 Opt("developer", Nullable(StringT)),
                 Req("marketplace_addr", StringT) >>)

NftSwap ==
    Interface(<< Req("nft_token_id", StringT),
                 Req("token_amount", Uint128) >>)

\* BondingCurve emitted as an open string
BondingCurveAsString == StringT

BondingCurve == Union(<< Lit("linear"), Lit("exponential"), Lit("constant_product") >>)

PoolType == Union(<< Lit("token"), Lit("nft"), Lit("trade") >>)

\* PoolInfo with asset_recipient declared without "?"
PoolInfoRecipientRequired ==
    Interface(<< Req("asset_recipient", Nullable(Addr)),
                 Req("bonding_curve", BondingCurve),
                 Req("collection", Addr),
                 Req("delta", Uint128),
                 Req("finders_fee_percent", Decimal),
                 Req("pool_type", PoolType),
                 Req("reinvest_nfts", BooleanT),
                 Req("reinvest_tokens", BooleanT),
                 Req("spot_price", Uint128),
                 Req("swap_fee_percent", Decimal) >>)

PoolInfo ==
    Interface(<< Opt("asset_recipient", Nullable(Addr)),
                 Req("bonding_curve", BondingCurve),
                 Req("collection", Addr),
                 Req("delta", Uint128),
                 Req("finders_fee_percent", Decimal),
                 Req("pool_type", PoolType),
                 Req("reinvest_nfts", BooleanT),
                 Req("reinvest_tokens", BooleanT),
                 Req("spot_price", Uint128),
                 Req("swap_fee_percent", Decimal) >>)

PoolNftSwap ==
    Interface(<< Req("nft_swaps", ArrayOf(NftSwap)),
                 Req("pool_id", NumberT) >>)

PoolQuote ==
    Interface(<< Req("collection", Addr),
                 Req("id", NumberT),
                 Req("quote_price", Uint128) >>)

PoolQuoteResponse == Interface(<< Req("pool_quotes", ArrayOf(PoolQuote)) >>)

Pool ==
    Interface(<< Opt("asset_recipient", Nullable(Addr)),
                 Req("bonding_curve", BondingCurve),
                 Req("collection", Addr),
                 Req("delta", Uint128),
                 Req("finders_fee_percent", Decimal),
                 Req("id", NumberT),
                 Req("is_active", BooleanT),
                 Req("nft_token_ids", ArrayOf(StringT)),
                 Req("owner", Addr),
                 Req("pool_type", PoolType),
                 Req("reinvest_nfts", BooleanT),
                 Req("reinvest_tokens", BooleanT),
                 Req("spot_price", Uint128),
                 Req("swap_fee_percent", Decimal),
                 Req("total_tokens", Uint128) >>)

PoolsByIdResponse ==
    Interface(<< Req("pools", ArrayOf(TupleOf(<< NumberT, Nullable(Pool) >>))) >>)

PoolsResponse == Interface(<< Req("pools", ArrayOf(Pool)) >>)

QueryOptionsForTupleOfUint128AndUint64 ==
    Interface(<< Opt("descending", Nullable(BooleanT)),
                 Opt("limit", Nullable(NumberT)),
                 Opt("start_after", Nullable(TupleOf(<< Uint128, NumberT >>))) >>)

QueryOptionsForUint64 ==
    Interface(<< Opt("descending", Nullable(BooleanT)),
                 Opt("limit", Nullable(NumberT)),
                 Opt("start_after", Nullable(NumberT)) >>)

\* SwapParams with robust declared as the router declares it
SwapParamsRobustOptional ==
    Interface(<< Req("deadline", Timestamp),
                 Opt("robust", Nullable(BooleanT)) >>)

SwapParams ==
    Interface(<< Req("deadline", Timestamp),
                 Req("robust", BooleanT) >>)

TransactionType == Union(<< Lit("sell"), Lit("buy") >>)

\* TokenPayment with amount emitted as a native number
TokenPaymentAmountAsNumber ==
    Interface(<< Req("address", StringT),
                 Req("amount", NumberT) >>)

TokenPayment ==
    Interface(<< Req("address", StringT),
                 Req("amount", Uint128) >>)

NftPayment ==
    Interface(<< Req("address", StringT),
                 Req("nft_token_id", StringT) >>)

\* Swap with finder_payment marked "?" but not "| null"
SwapFinderNotNullable ==
    Interface(<< Opt("finder_payment", TokenPayment),
                 Req("network_fee", Uint128),
                 Opt("nft_payment", Nullable(NftPayment)),
                 Req("pool_id", NumberT),
                 Opt("royalty_payment", Nullable(TokenPayment)),
                 Opt("seller_payment", Nullable(TokenPayment)),
                 Req("spot_price", Uint128),
                 Req("transaction_type", TransactionType) >>)

Swap ==
    Interface(<< Opt("finder_payment", Nullable(TokenPayment)),
                 Req("network_fee", Uint128),
                 Opt("nft_payment", Nullable(NftPayment)),
                 Req("pool_id", NumberT),
                 Opt("royalty_payment", Nullable(TokenPayment)),
                 Opt("seller_payment", Nullable(TokenPayment)),
                 Req("spot_price", Uint128),
                 Req("transaction_type", TransactionType) >>)

SwapResponse == Interface(<< Req("swaps", ArrayOf(Swap)) >>)

(***************************************************************************)
(* The swap router's generated types.  Its Uint128 and Addr are the same   *)
(* aliases of string as the pool's; its InstantiateMsg is a different      *)
(* shape from the pool's and is named RouterInstantiateMsg here.           *)
(***************************************************************************)
RouterInstantiateMsg == Interface(<< Req("infinity_global", StringT) >>)

NftForTokensSource == Union(<< Lit("infinity") >>)

TokensForNftSource == Union(<< Lit("infinity") >>)

SellOrder ==
    Interface(<< Req("input_token_id", StringT),
                 Req("min_output", Uint128) >>)

SwapParamsForString ==
    Interface(<< Opt("asset_recipient", Nullable(StringT)),
                 Opt("robust", Nullable(BooleanT)) >>)

SwapNftsForTokens ==
    Interface(<< Req("collection", StringT),
                 Req("denom", StringT),
                 Opt("filter_sources", Nullable(ArrayOf(NftForTokensSource))),
                 Req("sell_orders", ArrayOf(SellOrder)),
                 Opt("swap_params", Nullable(SwapParamsForString)) >>)

SwapTokensForNfts ==
    Interface(<< Req("collection", StringT),
                 Req("denom", StringT),
                 Opt("filter_sources", Nullable(ArrayOf(TokensForNftSource))),
                 Req("max_inputs", ArrayOf(Uint128)),
                 Opt("swap_params", Nullable(SwapParamsForString)) >>)

ExecuteMsg ==
    Union(<< Interface(<< Req("swap_nfts_for_tokens", SwapNftsForTokens) >>),
             Interface(<< Req("swap_tokens_for_nfts", SwapTokensForNfts) >>) >>)

NftsForTokens ==
    Interface(<< Req("collection", StringT),
                 Req("denom", StringT),
                 Opt("filter_sources", Nullable(ArrayOf(NftForTokensSource))),
                 Req("limit", NumberT) >>)

TokensForNfts ==
    Interface(<< Req("collection", StringT),
                 Req("denom", StringT),
                 Opt("filter_sources", Nullable(ArrayOf(TokensForNftSource))),
                 Req("limit", NumberT) >>)

QueryMsg ==
    Union(<< Interface(<< Req("nfts_for_tokens", NftsForTokens) >>),
             Interface(<< Req("tokens_for_nfts", TokensForNfts) >>) >>)

\* NftForTokensQuote with source marked "?"
NftForTokensQuoteSourceOptional ==
    Interface(<< Req("address", Addr),
                 Req("amount", Uint128),
                 Opt("source", Nullable(NftForTokensSource)) >>)

NftForTokensQuote ==
    Interface(<< Req("address", Addr),
                 Req("amount", Uint128),
                 Req("source", NftForTokensSource) >>)

ArrayOfNftForTokensQuote == ArrayOf(NftForTokensQuote)

TokensForNftQuote ==
    Interface(<< Req("address", Addr),
                 Req("amount", Uint128),
                 Req("source", TokensForNftSource) >>)

ArrayOfTokensForNftQuote == ArrayOf(TokensForNftQuote)

(***************************************************************************)
(* The exported message and response shapes, by name.                      *)
(***************************************************************************)
ShapeNames ==
    { "ConfigResponse", "Config", "InstantiateMsg", "NftSwap", "PoolInfo",
      "PoolNftSwap", "PoolQuoteResponse", "PoolQuote", "PoolsByIdResponse",
      "Pool", "PoolsResponse", "QueryOptionsForTupleOfUint128AndUint64",
      "QueryOptionsForUint64", "SwapParams", "SwapResponse", "Swap",
      "TokenPayment", "NftPayment",
      "RouterInstantiateMsg", "ExecuteMsg", "SellOrder", "SwapParamsForString",
      "QueryMsg", "ArrayOfNftForTokensQuote", "NftForTokensQuote",
      "ArrayOfTokensForNftQuote", "TokensForNftQuote" }

ShapeOf(name) ==
    CASE name = "ConfigResponse" -> ConfigResponse
      [] name = "Config" -> Config
      [] name = "InstantiateMsg" -> InstantiateMsg
      [] name = "NftSwap" -> NftSwap
      [] name = "PoolInfo" -> PoolInfo
      [] name = "PoolNftSwap" -> PoolNftSwap
      [] name = "PoolQuoteResponse" -> PoolQuoteResponse
      [] name = "PoolQuote" -> PoolQuote
      [] name = "PoolsByIdResponse" -> PoolsByIdResponse
      [] name = "Pool" -> Pool
      [] name = "PoolsResponse" -> PoolsResponse
      [] name = "QueryOptionsForTupleOfUint128AndUint64" -> QueryOptionsForTupleOfUint128AndUint64
      [] name = "QueryOptionsForUint64" -> QueryOptionsForUint64
      [] name = "SwapParams" -> SwapParams
      [] name = "SwapResponse" -> SwapResponse
      [] name = "Swap" -> Swap
      [] name = "TokenPayment" -> TokenPayment
      [] name = "NftPayment" -> NftPayment
      [] name = "RouterInstantiateMsg" -> RouterInstantiateMsg
      [] name = "ExecuteMsg" -> ExecuteMsg
      [] name = "SellOrder" -> SellOrder
      [] name = "SwapParamsForString" -> SwapParamsForString
      [] name = "QueryMsg" -> QueryMsg
      [] name = "ArrayOfNftForTokensQuote" -> ArrayOfNftForTokensQuote
      [] name = "NftForTokensQuote" -> NftForTokensQuote
      [] name = "ArrayOfTokensForNftQuote" -> ArrayOfTokensForNftQuote
      [] name = "TokensForNftQuote" -> TokensForNftQuote

(***************************************************************************)
(* v is a value of type T.  Object types are open (a value with further    *)
(* keys is still a value of the type) and a union holds the values of      *)
(* any of its members; null belongs to a type only where the type says     *)
(* "| null".                                                               *)
(***************************************************************************)
RECURSIVE Conforms(_, _)
Conforms(v, T) ==
    CASE T.k = "string" -> v.t = "str"
      [] T.k = "number" -> v.t = "num"
      [] T.k = "boolean" -> v.t = "bool"
      [] T.k = "null" -> v.t = "null"
      [] T.k = "lit" -> v.t = "str" /\ v.s = T.s
      [] T.k = "union" -> \E i \in 1..Len(T.of) : Conforms(v, T.of[i])
      [] T.k = "array" -> v.t = "arr" /\ \A i \in 1..Len(v.a) : Conforms(v.a[i], T.of)
      [] T.k = "tuple" -> /\ v.t = "arr"
                          /\ Len(v.a) = Len(T.of)
                          /\ \A i \in 1..Len(v.a) : Conforms(v.a[i], T.of[i])
      [] T.k = "object" -> /\ v.t = "obj"
                           /\ \A i \in 1..Len(T.fields) :
                                IF T.fields[i].name \in DOMAIN v.o
                                THEN Conforms(v.o[T.fields[i].name], T.fields[i].type)
                                ELSE T.fields[i].opt

\* a union of string literals
IsEnum(T) == T.k = "union" /\ \A i \in 1..Len(T.of) : T.of[i].k = "lit"

\* a union of objects of one required key each: that key selects the variant
IsTagged(T) ==
    /\ T.k = "union"
    /\ \A i \in 1..Len(T.of) :
          /\ T.of[i].k = "object"
          /\ Len(T.of[i].fields) = 1
          /\ ~T.of[i].fields[1].opt

Tags(T) == { T.of[i].fields[1].name : i \in 1..Len(T.of) }

Payload(T, tag) == T.of[CHOOSE i \in 1..Len(T.of) : T.of[i].fields[1].name = tag].fields[1].type

(***************************************************************************)
(* JSON text, as the sequence of its tokens.  Encode writes a value out,   *)
(* member by member; Decode parses the tokens back.                        *)
(***************************************************************************)
Tok(k) == [tok |-> k]
TStr(s) == [tok |-> "str", s |-> s]
TNum(n) == [tok |-> "num", n |-> n]
TKey(s) == [tok |-> "key", s |-> s]

RECURSIVE Encode(_)
RECURSIVE EncodeElems(_, _)
RECURSIVE EncodeMembers(_, _)
Encode(v) ==
    CASE v.t = "null" -> << Tok("null") >>
      [] v.t = "bool" -> << Tok(IF v.b THEN "true" ELSE "false") >>
      [] v.t = "num" -> << TNum(v.n) >>
      [] v.t = "str" -> << TStr(v.s) >>
      [] v.t = "arr" -> << Tok("[") >> \o EncodeElems(v.a, 1) \o << Tok("]") >>
      [] v.t = "obj" -> << Tok("{") >> \o EncodeMembers(v.o, DOMAIN v.o) \o << Tok("}") >>

EncodeElems(a, i) ==
    IF i > Len(a) THEN << >> ELSE Encode(a[i]) \o EncodeElems(a, i + 1)

\* an encoder that leaves out the members whose value is null
RECURSIVE EncodeMembersDroppingNull(_, _)
EncodeMembersDroppingNull(o, keys) ==
    IF keys = {} THEN << >>
    ELSE LET k == CHOOSE x \in keys : TRUE
         IN  (IF o[k] = JNull THEN << >> ELSE << TKey(k) >> \o Encode(o[k]))
             \o EncodeMembersDroppingNull(o, keys \ {k})

EncodeMembers(o, keys) ==
    IF keys = {} THEN << >>
    ELSE LET k == CHOOSE x \in keys : TRUE
         IN  << TKey(k) >> \o Encode(o[k]) \o EncodeMembers(o, keys \ {k})

RECURSIVE ParseValue(_)
RECURSIVE ParseElems(_, _)
RECURSIVE ParseMembers(_, _)
\* the value at the head of ts, and the tokens after it
ParseValue(ts) ==
    LET h == Head(ts)
    IN  CASE h.tok = "null" -> [v |-> JNull, rest |-> Tail(ts)]
          [] h.tok = "true" -> [v |-> JBool(TRUE), rest |-> Tail(ts)]
          [] h.tok = "false" -> [v |-> JBool(FALSE), rest |-> Tail(ts)]
          [] h.tok = "num" -> [v |-> JNum(h.n), rest |-> Tail(ts)]
          [] h.tok = "str" -> [v |-> JStr(h.s), rest |-> Tail(ts)]
          [] h.tok = "[" -> ParseElems(Tail(ts), << >>)
          [] h.tok = "{" -> ParseMembers(Tail(ts), EmptyMap)

ParseElems(ts, acc) ==
    IF Head(ts).tok = "]"
    THEN [v |-> JArr(acc), rest |-> Tail(ts)]
    ELSE LET r == ParseValue(ts)
         IN  ParseElems(r.rest, Append(acc, r.v))

ParseMembers(ts, acc) ==
    IF Head(ts).tok = "}"
    THEN [v |-> JObj(acc), rest |-> Tail(ts)]
    ELSE LET k == Head(ts).s
             r == ParseValue(Tail(ts))
         IN  ParseMembers(r.rest,
                 [x \in (DOMAIN acc) \cup {k} |-> IF x = k THEN r.v ELSE acc[x]])

Decode(ts) == ParseValue(ts).v

(***************************************************************************)
(* Example payloads.  Sample(T) is the value of T with every field         *)
(* present, every union at its first member and every array of length 1.   *)
(***************************************************************************)
FieldNamed(T, n) == T.fields[CHOOSE i \in 1..Len(T.fields) : T.fields[i].name = n]

FieldNames(T) == { T.fields[i].name : i \in 1..Len(T.fields) }

RequiredNames(T) == { T.fields[i].name : i \in { j \in 1..Len(T.fields) : ~T.fields[j].opt } }

OptionalNames(T) == { T.fields[i].name : i \in { j \in 1..Len(T.fields) : T.fields[j].opt } }

RECURSIVE Sample(_)
Sample(T) ==
    CASE T.k = "string" -> JStr("stars1")
      [] T.k = "number" -> JNum(1)
      [] T.k = "boolean" -> JBool(TRUE)
      [] T.k = "null" -> JNull
      [] T.k = "lit" -> JStr(T.s)
      [] T.k = "union" -> Sample(T.of[1])
      [] T.k = "array" -> JArr(<< Sample(T.of) >>)
      [] T.k = "tuple" -> JArr([i \in 1..Len(T.of) |-> Sample(T.of[i])])
      [] T.k = "object" -> JObj([n \in FieldNames(T) |-> Sample(FieldNamed(T, n).type)])

(***************************************************************************)
(* Edits of a value, each at exactly one place of it.                      *)
(***************************************************************************)
\* the sequence a without its i-th element
RemoveAt(a, i) == [j \in 1..(Len(a) - 1) |-> IF j < i THEN a[j] ELSE a[j + 1]]

\* the values a client may write where another kind of value is expected
Atoms == { JNull, JNum(7), JStr("bogus") }

\* the members a client may add to an object
Extras ==
    { << "swap_nfts_for_tokens", Sample(SwapNftsForTokens) >>,
      << "swap_tokens_for_nfts", Sample(SwapTokensForNfts) >>,
      << "swap_tokens_for_nfts", JObj(EmptyMap) >>,
      << "nfts_for_tokens", Sample(NftsForTokens) >>,
      << "tokens_for_nfts", JObj([filter_sources |-> JArr(<< JStr("bogus") >>)]) >>,
      << "deadline", JStr("1700000000") >>,
      << "memo", JNum(7) >> }

\* v with one member of an object, or one element of an array, removed
RECURSIVE Drops(_)
Drops(v) ==
    CASE v.t = "obj" ->
            { Without(v, k) : k \in DOMAIN v.o }
            \cup UNION { { With(v, k, w) : w \in Drops(v.o[k]) } : k \in DOMAIN v.o }
      [] v.t = "arr" ->
            { JArr(RemoveAt(v.a, i)) : i \in 1..Len(v.a) }
            \cup UNION { { JArr([v.a EXCEPT ![i] = w]) : w \in Drops(v.a[i]) } : i \in 1..Len(v.a) }
      [] OTHER -> {}

\* v with the value at one place replaced by an atom
RECURSIVE Overwrites(_)
Overwrites(v) ==
    (Atoms \ {v})
    \cup CASE v.t = "obj" ->
                UNION { { With(v, k, w) : w \in Overwrites(v.o[k]) } : k \in DOMAIN v.o }
           [] v.t = "arr" ->
                UNION { { JArr([v.a EXCEPT ![i] = w]) : w \in Overwrites(v.a[i]) } : i \in 1..Len(v.a) }
           [] OTHER -> {}

\* v with one member added to one of its objects
RECURSIVE Additions(_)
Additions(v) ==
    CASE v.t = "obj" ->
            { With(v, e[1], e[2]) : e \in { x \in Extras : x[1] \notin DOMAIN v.o } }
            \cup UNION { { With(v, k, w) : w \in Additions(v.o[k]) } : k \in DOMAIN v.o }
      [] v.t = "arr" ->
            UNION { { JArr([v.a EXCEPT ![i] = w]) : w \in Additions(v.a[i]) } : i \in 1..Len(v.a) }
      [] OTHER -> {}

\* v, a value of T, with the value at one union-typed place replaced by the
\* example of another member of the union
RECURSIVE Alternatives(_, _)
Alternatives(v, T) ==
    CASE T.k = "union" ->
            ({ Sample(T.of[i]) : i \in 1..Len(T.of) } \ {v})
            \cup UNION { Alternatives(v, T.of[i]) : i \in { j \in 1..Len(T.of) : Conforms(v, T.of[j]) } }
      [] T.k = "object" /\ v.t = "obj" ->
            UNION { { With(v, n, w) : w \in Alternatives(v.o[n], FieldNamed(T, n).type) }
                    : n \in FieldNames(T) \cap DOMAIN v.o }
      [] T.k = "array" /\ v.t = "arr" ->
            UNION { { JArr([v.a EXCEPT ![i] = w]) : w \in Alternatives(v.a[i], T.of) } : i \in 1..Len(v.a) }
      [] T.k = "tuple" /\ v.t = "arr" /\ Len(v.a) = Len(T.of) ->
            UNION { { JArr([v.a EXCEPT ![i] = w]) : w \in Alternatives(v.a[i], T.of[i]) } : i \in 1..Len(v.a) }
      [] OTHER -> {}

(***************************************************************************)
(* The state: the shape a message is built for, the value built so far,    *)
(* and its way through encoding, validation and decoding.                  *)
(***************************************************************************)
VARIABLES shape, value, edits, phase, wire, verdict, decoded

vars == << shape, value, edits, phase, wire, verdict, decoded >>

\* "nothing decoded"
NoMessage == [t |-> "none"]

\* the example payloads of T: one for each variant when T is a tagged union
Examples(T) ==
    IF IsTagged(T) THEN { Sample(T.of[i]) : i \in 1..Len(T.of) } ELSE { Sample(T) }

Init ==
    /\ shape \in ShapeNames
    /\ value \in Examples(ShapeOf(shape))
    /\ edits = 0
    /\ phase = "built"
    /\ wire = << >>
    /\ verdict = "none"
    /\ decoded = NoMessage

CanEdit == phase = "built" /\ edits < MaxEdits

Edit(w) ==
    /\ value' = w
    /\ edits' = edits + 1
    /\ UNCHANGED << shape, phase, wire, verdict, decoded >>

DropMember == CanEdit /\ \E w \in Drops(value) : Edit(w)

Overwrite == CanEdit /\ \E w \in Overwrites(value) : Edit(w)

AddMember == CanEdit /\ \E w \in Additions(value) : Edit(w)

Alternate == CanEdit /\ \E w \in Alternatives(value, ShapeOf(shape)) : Edit(w)

EncodeMsg ==
    /\ phase = "built"
    /\ wire' = Encode(value)
    /\ phase' = "encoded"
    /\ UNCHANGED << shape, value, edits, verdict, decoded >>

Validate ==
    /\ phase = "encoded"
    /\ verdict' = IF Conforms(Decode(wire), ShapeOf(shape)) THEN "accepted" ELSE "rejected"
    /\ phase' = "validated"
    /\ UNCHANGED << shape, value, edits, wire, decoded >>

DecodeMsg ==
    /\ phase = "validated"
    /\ verdict = "accepted"
    /\ decoded' = Decode(wire)
    /\ phase' = "decoded"
    /\ UNCHANGED << shape, value, edits, wire, verdict >>

Next ==
    \/ DropMember
    \/ Overwrite
    \/ AddMember
    \/ Alternate
    \/ EncodeMsg
    \/ Validate
    \/ DecodeMsg

Spec == Init /\ [][Next]_vars

TypeOK ==
    /\ shape \in ShapeNames
    /\ edits \in 0..MaxEdits
    /\ phase \in { "built", "encoded", "validated", "decoded" }
    /\ verdict \in { "none", "accepted", "rejected" }

(***************************************************************************)
(* Vocabulary of the properties.                                           *)
(***************************************************************************)
\* the value being built is a value of its shape
Valid == Conforms(value, ShapeOf(shape))

\* validation has run on the encoded value
Validated == phase \in { "validated", "decoded" }

\* the pairs << n, w >> in which w is the value that v, read as a value of T,
\* holds in a declared field named n, for the names n in N
RECURSIVE Held(_, _, _)
Held(v, T, N) ==
    CASE T.k = "object" /\ v.t = "obj" ->
            UNION { (IF n \in N THEN { << n, v.o[n] >> } ELSE {})
                    \cup Held(v.o[n], FieldNamed(T, n).type, N)
                    : n \in FieldNames(T) \cap DOMAIN v.o }
      [] T.k = "union" ->
            UNION { Held(v, T.of[i], N) : i \in { j \in 1..Len(T.of) : Conforms(v, T.of[j]) } }
      [] T.k = "array" /\ v.t = "arr" ->
            UNION { Held(v.a[i], T.of, N) : i \in 1..Len(v.a) }
      [] T.k = "tuple" /\ v.t = "arr" /\ Len(v.a) = Len(T.of) ->
            UNION { Held(v.a[i], T.of[i], N) : i \in 1..Len(v.a) }
      [] OTHER -> {}

\* v, read as a value of T, lacks a field declared without "?", or holds a
\* value outside the set of an enumerated field, or has no key of a tagged union
RECURSIVE Malformed(_, _)
Malformed(v, T) ==
    CASE IsEnum(T) -> ~Conforms(v, T)
      [] IsTagged(T) ->
            /\ v.t = "obj"
            /\ \/ Tags(T) \cap DOMAIN v.o = {}
               \/ \E tag \in Tags(T) \cap DOMAIN v.o : Malformed(v.o[tag], Payload(T, tag))
      [] T.k = "union" /\ ~IsEnum(T) /\ ~IsTagged(T) ->
            \E i \in 1..Len(T.of) : T.of[i].k # "null" /\ Malformed(v, T.of[i])
      [] T.k = "object" ->
            /\ v.t = "obj"
            /\ \E i \in 1..Len(T.fields) :
                  IF T.fields[i].name \in DOMAIN v.o
                  THEN Malformed(v.o[T.fields[i].name], T.fields[i].type)
                  ELSE ~T.fields[i].opt
      [] T.k = "array" -> v.t = "arr" /\ \E i \in 1..Len(v.a) : Malformed(v.a[i], T.of)
      [] T.k = "tuple" ->
            /\ v.t = "arr"
            /\ Len(v.a) = Len(T.of)
            /\ \E i \in 1..Len(v.a) : Malformed(v.a[i], T.of[i])
      [] OTHER -> FALSE

IsStr(v) == v.t = "str"
IsNum(v) == v.t = "num"
IsBool(v) == v.t = "bool"

(***************************************************************************)
(* C1.  Validation of a value against its shape rejects the value when a   *)
(* field declared without "?" is missing from it, when an enumerated       *)
(* field holds a value outside its set, and when no key of a tagged union  *)
(* is present; a rejected value is never decoded.                          *)
(***************************************************************************)
C1_MalformedIsRejected ==
    /\ (Validated /\ Malformed(value, ShapeOf(shape))) => verdict = "rejected"
    /\ verdict = "rejected" => decoded = NoMessage

\* the value has at most one key of the tagged union it is built for
AtMostOneKey ==
    (IsTagged(ShapeOf(shape)) /\ value.t = "obj") =>
        Cardinality(Tags(ShapeOf(shape)) \cap DOMAIN value.o) <= 1

\* C1 holds of the values that have at most one key of their tagged union:
\* what is left of C1 once the values with two keys (C2) are set aside
C1_MalformedIsRejectedWithOneKey ==
    /\ (AtMostOneKey /\ Validated /\ Malformed(value, ShapeOf(shape))) => verdict = "rejected"
    /\ verdict = "rejected" => decoded = NoMessage

(***************************************************************************)
(* C2.  A value of ExecuteMsg or of QueryMsg has exactly one of the two    *)
(* keys of its union, and the payload under that key has the shape the     *)
(* key selects.                                                            *)
(***************************************************************************)
C2_ExactlyOneKey ==
    (shape \in { "ExecuteMsg", "QueryMsg" } /\ Valid) =>
        /\ Cardinality(Tags(ShapeOf(shape)) \cap DOMAIN value.o) = 1
        /\ \A tag \in Tags(ShapeOf(shape)) \cap DOMAIN value.o :
              Conforms(value.o[tag], Payload(ShapeOf(shape), tag))

MoneyNames ==
    { "token_amount", "spot_price", "delta", "total_tokens", "network_fee",
      "quote_price", "amount", "min_output", "finders_fee_percent",
      "swap_fee_percent", "deadline" }

IdNames == { "id", "pool_id" }

\* the first components of the pairs of a PoolsByIdResponse
PoolsByIdKeys(v) == { v.o["pools"].a[i].a[1] : i \in 1..Len(v.o["pools"].a) }

IsStrArray(v) == v.t = "arr" /\ \A i \in 1..Len(v.a) : IsStr(v.a[i])

Typed(p, N, kinds) == p[1] \in N => p[2].t \in kinds

QuantityNames == MoneyNames \cup IdNames \cup { "max_inputs", "start_after", "limit" }

\* C4 as claimed: in every valid value every money field, every pool id,
\* every key of PoolsByIdResponse and every start_after cursor is a string
C4_IdsAndMoneyAreStrings ==
    Valid =>
        /\ \A p \in Held(value, ShapeOf(shape), QuantityNames) :
              /\ Typed(p, MoneyNames \cup IdNames, { "str" })
              /\ p[1] = "max_inputs" => IsStrArray(p[2])
              /\ Typed(p, { "start_after" }, { "str", "null" })
        /\ shape = "PoolsByIdResponse" => \A w \in PoolsByIdKeys(value) : IsStr(w)

\* C4 as amended: in every valid value the money fields are strings, while
\* the pool ids, the keys of PoolsByIdResponse, limit and the Uint64 part
\* of a start_after cursor are native numbers
C4_MoneyIsStringIdsAreNumbers ==
    Valid =>
        /\ \A p \in Held(value, ShapeOf(shape), QuantityNames) :
              /\ Typed(p, MoneyNames, { "str" })
              /\ p[1] = "max_inputs" => IsStrArray(p[2])
              /\ Typed(p, IdNames, { "num" })
              /\ Typed(p, { "limit" }, { "num", "null" })
              /\ (p[1] = "start_after" /\ shape = "QueryOptionsForUint64") =>
                    p[2].t \in { "num", "null" }
              /\ (p[1] = "start_after" /\ shape = "QueryOptionsForTupleOfUint128AndUint64") =>
                    \/ p[2] = JNull
                    \/ p[2].t = "arr" /\ Len(p[2].a) = 2 /\ IsStr(p[2].a[1]) /\ IsNum(p[2].a[2])
        /\ shape = "PoolsByIdResponse" => \A w \in PoolsByIdKeys(value) : IsNum(w)

\* an edited Pool was accepted: its id is a number, its spot price a string
C4_Witness ==
    /\ shape = "Pool"
    /\ verdict = "accepted"
    /\ edits = 1
    /\ IsNum(value.o["id"])
    /\ IsStr(value.o["spot_price"])

(***************************************************************************)
(* C5.  In every object type of a valid value, a field marked "?" may be   *)
(* absent, may be null and may hold a value of its type, absent and null   *)
(* being two different values; a field not marked "?" may be neither       *)
(* absent nor null.                                                        *)
(***************************************************************************)
RECURSIVE OptionalConvention(_, _)
OptionalConvention(v, T) ==
    CASE T.k = "object" ->
            \A n \in FieldNames(T) :
                LET f == FieldNamed(T, n)
                    absent == Without(v, n)
                    nulled == With(v, n, JNull)
                    filled == With(v, n, Sample(f.type))
                IN  /\ f.opt =>
                          /\ Conforms(absent, T)
                          /\ Conforms(nulled, T)
                          /\ Conforms(filled, T)
                          /\ absent # nulled
                          /\ filled # nulled
                    /\ ~f.opt =>
                          /\ ~Conforms(absent, T)
                          /\ ~Conforms(nulled, T)
                    /\ n \in DOMAIN v.o => OptionalConvention(v.o[n], f.type)
      [] T.k = "union" ->
            \A i \in 1..Len(T.of) : Conforms(v, T.of[i]) => OptionalConvention(v, T.of[i])
      [] T.k = "array" -> \A i \in 1..Len(v.a) : OptionalConvention(v.a[i], T.of)
      [] T.k = "tuple" -> \A i \in 1..Len(v.a) : OptionalConvention(v.a[i], T.of[i])
      [] OTHER -> TRUE

\* C5: every object type met in a valid value keeps the convention
C5_AbsentNullOrValue == Valid => OptionalConvention(value, ShapeOf(shape))

\* a Swap whose finder payment was set to null was accepted
C5_Witness ==
    /\ shape = "Swap"
    /\ verdict = "accepted"
    /\ HasKey(value, "finder_payment")
    /\ value.o["finder_payment"] = JNull

(***************************************************************************)
(* C6.  The Swap record.                                                   *)
(***************************************************************************)
PaymentNames == { "seller_payment", "royalty_payment", "finder_payment", "nft_payment" }

\* the swaps of the value being built
SwapsBuilt ==
    IF shape = "Swap" THEN { value }
    ELSE IF shape = "SwapResponse"
         THEN { value.o["swaps"].a[i] : i \in 1..Len(value.o["swaps"].a) }
         ELSE {}

NonNullPayments(sw) == { n \in PaymentNames \cap DOMAIN sw.o : sw.o[n] # JNull }

IsTokenPayment(v) == HasKey(v, "address") /\ IsStr(v.o["address"]) /\ HasKey(v, "amount") /\ IsStr(v.o["amount"])

IsNftPayment(v) == HasKey(v, "address") /\ IsStr(v.o["address"]) /\ HasKey(v, "nft_token_id") /\ IsStr(v.o["nft_token_id"])

PaymentsWellFormed(sw) ==
    \A n \in NonNullPayments(sw) :
        IF n = "nft_payment" THEN IsNftPayment(sw.o[n]) ELSE IsTokenPayment(sw.o[n])

\* C6 as claimed: at most three payments, and transaction type, spot price
\* and pool id are the only fields a Swap cannot do without
C6_AtMostThreePayments ==
    Valid =>
        \A sw \in SwapsBuilt :
            /\ sw.o["transaction_type"] \in { JStr("buy"), JStr("sell") }
            /\ HasKey(sw, "spot_price")
            /\ HasKey(sw, "pool_id")
            /\ Cardinality(NonNullPayments(sw)) <= 3
            /\ PaymentsWellFormed(sw)
            /\ \A n \in (DOMAIN sw.o) \ { "transaction_type", "spot_price", "pool_id" } :
                  Conforms(Without(sw, n), Swap)

\* C6 as amended: up to four payments, and network_fee is required too
C6_UpToFourPayments ==
    Valid =>
        \A sw \in SwapsBuilt :
            /\ sw.o["transaction_type"] \in { JStr("buy"), JStr("sell") }
            /\ IsStr(sw.o["spot_price"])
            /\ IsStr(sw.o["network_fee"])
            /\ IsNum(sw.o["pool_id"])
            /\ Cardinality(NonNullPayments(sw)) <= 4
            /\ PaymentsWellFormed(sw)
            /\ \A n \in { "transaction_type", "spot_price", "pool_id", "network_fee" } :
                  ~Conforms(Without(sw, n), Swap)
            /\ \A n \in (DOMAIN sw.o) \ { "transaction_type", "spot_price", "pool_id", "network_fee" } :
                  Conforms(Without(sw, n), Swap)

\* a Swap with all four payments was accepted
C6_Witness ==
    /\ shape = "Swap"
    /\ verdict = "accepted"
    /\ Cardinality(NonNullPayments(value)) = 4

(***************************************************************************)
(* C7.  Swap parameters.                                                   *)
(***************************************************************************)
CarriesDeadlineAndRobust(p) ==
    /\ HasKey(p, "deadline") /\ IsStr(p.o["deadline"])
    /\ HasKey(p, "robust") /\ IsBool(p.o["robust"])

\* the payloads of the swap messages of the value being built
SwapPayloads ==
    IF shape = "ExecuteMsg"
    THEN { value.o[tag] : tag \in { x \in Tags(ExecuteMsg) \cap DOMAIN value.o :
                                        Conforms(value.o[x], Payload(ExecuteMsg, x)) } }
    ELSE {}

\* C7 as claimed: the pool's and the router's swap parameters both carry a
\* deadline and a robust flag, and no swap message is valid without them
C7_DeadlineAndRobustEverywhere ==
    Valid =>
        /\ shape \in { "SwapParams", "SwapParamsForString" } => CarriesDeadlineAndRobust(value)
        /\ \A p \in SwapPayloads :
              HasKey(p, "swap_params") /\ CarriesDeadlineAndRobust(p.o["swap_params"])

\* C7 as amended: the pool's SwapParams requires both; the router's
\* swap_params may be absent or null, and its object needs neither a
\* deadline nor a robust flag, a robust flag given being a boolean or null
C7_DeadlineAndRobustInPoolOnly ==
    Valid =>
        /\ shape = "SwapParams" =>
              /\ CarriesDeadlineAndRobust(value)
              /\ ~Conforms(Without(value, "deadline"), SwapParams)
              /\ ~Conforms(Without(value, "robust"), SwapParams)
        /\ shape = "SwapParamsForString" =>
              /\ Conforms(Without(Without(value, "deadline"), "robust"), SwapParamsForString)
              /\ HasKey(value, "robust") => (IsBool(value.o["robust"]) \/ value.o["robust"] = JNull)
        /\ \A tag \in Tags(ExecuteMsg) :
              (shape = "ExecuteMsg" /\ HasKey(value, tag) /\ Conforms(value.o[tag], Payload(ExecuteMsg, tag))) =>
                  /\ Conforms(With(value, tag, Without(value.o[tag], "swap_params")), ExecuteMsg)
                  /\ Conforms(With(value, tag, With(value.o[tag], "swap_params", JNull)), ExecuteMsg)
                  /\ Conforms(With(value, tag, With(value.o[tag], "swap_params", JObj(EmptyMap))), ExecuteMsg)

\* a swap message without swap parameters was accepted
C7_Witness ==
    /\ shape = "ExecuteMsg"
    /\ verdict = "accepted"
    /\ HasKey(value, "swap_nfts_for_tokens")
    /\ ~HasKey(value, "swap_tokens_for_nfts")
    /\ ~HasKey(value.o["swap_nfts_for_tokens"], "swap_params")

(***************************************************************************)
(* C8.  The quote types.                                                   *)
(***************************************************************************)
QuoteShapes == { "PoolQuote", "NftForTokensQuote", "TokensForNftQuote" }

\* C8 as claimed: each of the three quote types needs a collection or an
\* address, a string amount and a source from the enumeration
C8_EveryQuoteHasSource ==
    (shape \in QuoteShapes /\ Valid) =>
        /\ HasKey(value, "collection") \/ HasKey(value, "address")
        /\ \E n \in { "amount", "quote_price" } : HasKey(value, n) /\ IsStr(value.o[n])
        /\ HasKey(value, "source")
        /\ value.o["source"] = JStr("infinity")

\* C8 as amended: the two router quotes need address, amount and source;
\* PoolQuote needs collection, a numeric id and quote_price, and no source
C8_RouterQuotesHaveSource ==
    (shape \in QuoteShapes /\ Valid) =>
        /\ shape \in { "NftForTokensQuote", "TokensForNftQuote" } =>
              /\ IsStr(value.o["address"])
              /\ IsStr(value.o["amount"])
              /\ value.o["source"] = JStr("infinity")
              /\ \A n \in { "address", "amount", "source" } :
                    ~Conforms(Without(value, n), ShapeOf(shape))
        /\ shape = "PoolQuote" =>
              /\ IsStr(value.o["collection"])
              /\ IsNum(value.o["id"])
              /\ IsStr(value.o["quote_price"])
              /\ \A n \in { "collection", "id", "quote_price" } :
                    ~Conforms(Without(value, n), PoolQuote)
              /\ Conforms(Without(value, "source"), PoolQuote)

\* a PoolQuote without a source was accepted
C8_Witness ==
    /\ shape = "PoolQuote"
    /\ verdict = "accepted"
    /\ ~HasKey(value, "source")

(***************************************************************************)
(* C9.  The enumerated string unions are closed sets, and the enumerated   *)
(* fields of a valid value hold members of them.                           *)
(***************************************************************************)
Strings ==
    { "linear", "exponential", "constant_product", "token", "nft", "trade",
      "sell", "buy", "infinity", "bogus", "stars1", "" }

Admits(T) == { x \in Strings : Conforms(JStr(x), T) }

\* each enumeration admits the strings of its declaration and no other
EnumerationsClosed ==
    /\ Admits(BondingCurve) = { "linear", "exponential", "constant_product" }
    /\ Admits(PoolType) = { "token", "nft", "trade" }
    /\ Admits(TransactionType) = { "sell", "buy" }
    /\ Admits(NftForTokensSource) = { "infinity" }
    /\ Admits(TokensForNftSource) = { "infinity" }

EnumNames == { "bonding_curve", "pool_type", "transaction_type", "source", "filter_sources" }

InSet(p, n, S) == p[1] = n => p[2] \in S

\* C9: the enumerations are closed, and the enumerated fields and
\* filter_sources elements of a valid value hold members of them
C9_ClosedEnumerations ==
    /\ EnumerationsClosed
    /\ Valid =>
          \A p \in Held(value, ShapeOf(shape), EnumNames) :
              /\ InSet(p, "bonding_curve", { JStr("linear"), JStr("exponential"), JStr("constant_product") })
              /\ InSet(p, "pool_type", { JStr("token"), JStr("nft"), JStr("trade") })
              /\ InSet(p, "transaction_type", { JStr("sell"), JStr("buy") })
              /\ InSet(p, "source", { JStr("infinity") })
              /\ p[1] = "filter_sources" =>
                    \/ p[2] = JNull
                    \/ p[2].t = "arr" /\ \A i \in 1..Len(p[2].a) : p[2].a[i] = JStr("infinity")

\* a Pool on the constant-product curve was accepted
C9_Witness ==
    /\ shape = "Pool"
    /\ verdict = "accepted"
    /\ value.o["bonding_curve"] = JStr("constant_product")

(***************************************************************************)
(* C10.  A valid Pool, cut down to the fields of PoolInfo, is a valid      *)
(* PoolInfo: PoolInfo's fields are fields of Pool, declared the same way,  *)
(* and Pool adds the required id, is_active, nft_token_ids, owner and      *)
(* total_tokens.                                                           *)
(***************************************************************************)
PoolInfoNames ==
    { "asset_recipient", "bonding_curve", "collection", "delta", "finders_fee_percent",
      "pool_type", "reinvest_nfts", "reinvest_tokens", "spot_price", "swap_fee_percent" }

Restrict(v, N) == JObj([x \in (DOMAIN v.o) \cap N |-> v.o[x]])

\* PoolInfo's fields are fields of Pool, declared the same way, and the
\* fields Pool adds are the five, all required
PoolExtendsPoolInfo ==
    /\ FieldNames(PoolInfo) = PoolInfoNames
    /\ \A n \in FieldNames(PoolInfo) : n \in FieldNames(Pool) /\ FieldNamed(Pool, n) = FieldNamed(PoolInfo, n)
    /\ FieldNames(Pool) \ FieldNames(PoolInfo) = { "id", "is_active", "nft_token_ids", "owner", "total_tokens" }
    /\ FieldNames(Pool) \ FieldNames(PoolInfo) \subseteq RequiredNames(Pool)

\* C10: Pool extends PoolInfo, and a valid Pool cut down to PoolInfo's
\* fields is a valid PoolInfo
C10_PoolRefinesPoolInfo ==
    /\ PoolExtendsPoolInfo
    /\ (shape = "Pool" /\ Valid) => Conforms(Restrict(value, PoolInfoNames), PoolInfo)

\* a Pool without asset recipient was accepted
C10_Witness ==
    /\ shape = "Pool"
    /\ verdict = "accepted"
    /\ ~HasKey(value, "asset_recipient")

====
